---------------------------- MODULE Spec2Model ----------------------------
(***************************************************************************)
(* Model of googlecloudsdk/command_lib/spanner/sql.py: the query-plan tree *)
(* builder (_ConvertToTree), the tree renderer (Node.PrettyPrint), the     *)
(* property lookup (_GetAdditionalProperty) and the aggregate statistics   *)
(* presenter (DisplayQueryAggregateStats).                                 *)
(*                                                                         *)
(* Text is a sequence of one-character strings, so that columns of a line  *)
(* can be inspected.  An optional integer (PlanNode.index) is <<>> when    *)
(* absent and <<i>> when present.  A Property is a record that carries a   *)
(* "value" field only when the attribute exists (hasattr).                 *)
(***************************************************************************)
EXTENDS Integers, Sequences, FiniteSets

VARIABLES
  plan_nodes,  \* result.stats.queryPlan.planNodes, the input of _ConvertToTree
  i,           \* position of the record the reverse scan handles next
  node_dict,   \* _ConvertToTree's node_dict: index -> Node
  wrapped,     \* positions for which Node(node) was constructed, in order
  ret,         \* outcome of _ConvertToTree: <<"pending">>, <<"Node", n>>, <<"None">>
  pc,          \* position of the running call
  err,         \* exception that left the call, "" when none
  out,         \* the sink: lines handed to out.Print, in order
  tree,        \* receiver of a direct Node.PrettyPrint call
  properties,  \* query_stats.additionalProperties
  got,         \* last _GetAdditionalProperty call: <<key, default, result>>
  printed      \* what resource_printer.Print was handed: <<rows, format>>

vars == <<plan_nodes, i, node_dict, wrapped, ret, pc, err, out, tree,
          properties, got, printed>>

-----------------------------------------------------------------------------
(* Bounds of the model *)

MaxNodes == 3
MaxTreeNodes == 7
MaxProps == 3

-----------------------------------------------------------------------------
(* Text *)

SP == " "

RECURSIVE Concat(_)
Concat(seqs) == IF seqs = <<>> THEN <<>> ELSE Head(seqs) \o Concat(Tail(seqs))

-----------------------------------------------------------------------------
(* Node.__init__ : children defaults to a fresh empty list *)

Node(props, children) == [properties |-> props, children |-> children]

(* '{}{} {} {}'.format(prepend, stub, kind, displayName); out.Print(...) *)
DisplayKindAndName(self, prepend, stub) ==
  prepend \o stub \o <<SP>> \o self.properties.kind \o <<SP>>
          \o self.properties.displayName

(* the two connectors exchanged *)
StubSwapped(is_last, is_root) ==
  IF is_root THEN <<>> ELSE IF is_last THEN <<"+", "-">> ELSE <<"\\", "-">>

(* stub = '' if is_root else (r'\-' if is_last else '+-') *)
Stub(is_last, is_root) ==
  IF is_root THEN <<>> ELSE IF is_last THEN <<"\\", "-">> ELSE <<"+", "-">>

(* the vertical connector drawn under every node, last child or not *)
ChildPrependAlwaysBar(prepend, is_last) ==
  prepend \o <<"|">> \o <<SP, SP, SP>>

(* child_prepend = prepend + (' ' if is_last else '|') + indent *)
ChildPrepend(prepend, is_last) ==
  prepend \o (IF is_last THEN <<SP>> ELSE <<"|">>) \o <<SP, SP, SP>>

(* is_last_child = idx == len(self.children) - 1, idx counted from 0 *)
IsLastChild(idx, children) == idx = Len(children) - 1

(* Node.PrettyPrint: the lines written, in order.  prepend is <<>> for the *)
(* default None, which `prepend or ''` turns into the empty string.        *)
RECURSIVE PrettyPrint(_, _, _, _)
PrettyPrint(self, prepend, is_last, is_root) ==
  <<DisplayKindAndName(self, prepend, Stub(is_last, is_root))>>
  \o Concat([k \in 1..Len(self.children) |->
               PrettyPrint(self.children[k], ChildPrepend(prepend, is_last),
                           IsLastChild(k - 1, self.children), FALSE)])

-----------------------------------------------------------------------------
(* _ConvertToTree *)

(* a scan that never takes the `else: return n` branch *)
IndexAlwaysTruthy(index) == TRUE

(* `if node.index:` : an absent index and the index 0 are both falsy *)
IndexIsTruthy(index) == index # <<>> /\ index[1] # 0

(* node_dict[link.childIndex] raises KeyError when the key is missing. *)
(* Keys of node_dict are kept as present indexes <<c>>.                *)
LookupRaises(node, dict) ==
  \E k \in 1..Len(node.childLinks) :
    <<node.childLinks[k].childIndex>> \notin DOMAIN dict

(* children inserted at the front instead of appended *)
WithChildrenReversed(node, dict) ==
  Node(node, [k \in 1..Len(node.childLinks) |->
                dict[<<node.childLinks[Len(node.childLinks) + 1 - k].childIndex>>]])

(* n = Node(node); for link in node.childLinks: n.children.append(...) *)
WithChildren(node, dict) ==
  Node(node, [k \in 1..Len(node.childLinks) |->
                dict[<<node.childLinks[k].childIndex>>]])

(* a lookup that skips a missing key (node_dict.get) instead of raising *)
AttachSkipMissing(node, dict) ==
  LET known == SelectSeq(node.childLinks,
                         LAMBDA l : <<l.childIndex>> \in DOMAIN dict)
  IN <<"ok", Node(node, [k \in 1..Len(known) |-> dict[<<known[k].childIndex>>]])>>

(* lines 59-62 of one iteration: the new Node, or the KeyError that ends it *)
Attach(node, dict) ==
  IF LookupRaises(node, dict) THEN <<"KeyError">>
  ELSE <<"ok", WithChildren(node, dict)>>

(* node_dict[node.index] = n *)
Store(dict, index, n) ==
  [k \in DOMAIN dict \cup {index} |-> IF k = index THEN n ELSE dict[k]]

(* one iteration of `for node in reversed(plan_nodes)` *)
ConvertStep ==
  /\ pc = "convert"
  /\ i >= 1
  /\ LET node == plan_nodes[i]
         n == Attach(node, node_dict)
     IN
       /\ wrapped' = Append(wrapped, i)
       /\ IF n[1] = "KeyError"
          THEN /\ pc' = "raised"
               /\ err' = "KeyError"
               /\ UNCHANGED <<i, node_dict, ret>>
          ELSE IF IndexIsTruthy(node.index)
          THEN /\ node_dict' = Store(node_dict, node.index, n[2])
               /\ i' = i - 1
               /\ UNCHANGED <<ret, pc, err>>
          ELSE /\ ret' = <<"Node", n[2]>>
               /\ pc' = "print"
               /\ UNCHANGED <<i, node_dict, err>>
  /\ UNCHANGED <<plan_nodes, out, tree, properties, got, printed>>

(* the loop ends without meeting a falsy index: the function returns None *)
ConvertExhausted ==
  /\ pc = "convert"
  /\ i = 0
  /\ ret' = <<"None">>
  /\ pc' = "print"
  /\ UNCHANGED <<plan_nodes, i, node_dict, wrapped, err, out, tree,
                 properties, got, printed>>

(* DisplayQueryPlan: node_tree_root.PrettyPrint(out) *)
DisplayPrettyPrint ==
  /\ pc = "print"
  /\ IF ret[1] = "Node"
     THEN /\ out' = out \o PrettyPrint(ret[2], <<>>, TRUE, TRUE)
          /\ pc' = "done"
          /\ UNCHANGED err
     ELSE /\ err' = "AttributeError"
          /\ pc' = "raised"
          /\ UNCHANGED out
  /\ UNCHANGED <<plan_nodes, i, node_dict, wrapped, ret, tree,
                 properties, got, printed>>

-----------------------------------------------------------------------------
(* Inputs of DisplayQueryPlan *)

KindAt(p) ==
  IF p = 1 THEN <<"R">> ELSE IF p = 2 THEN <<"A">> ELSE IF p = 3 THEN <<"B">>
  ELSE IF p = 4 THEN <<"C">> ELSE <<"D">>

NameAt(p) ==
  IF p = 1 THEN <<"X">> ELSE IF p = 2 THEN <<"F", "o", "o">>
  ELSE IF p = 3 THEN <<"B", "a", "r">> ELSE IF p = 4 THEN <<"B", "a", "z">>
  ELSE <<"Q", "u", "x">>

(* childIndex values on offer: one per list position, counted from 0 *)
IndexValues == 0..(MaxNodes - 1)

(* index of the record at list position p (counted from 1): absent, 0, 1, *)
(* the record's 0-based position (the server's numbering) or one less     *)
(* (children numbered from 0 after an indexless root).                    *)
OptIndexes(p) ==
  {<<>>} \cup {<<v>> : v \in {0, 1, p - 2, p - 1} \cap IndexValues}

LinkLists(budget) ==
  UNION {[1..k -> [childIndex : IndexValues]] : k \in 0..budget}

RECURSIVE LinkPlans(_, _)
LinkPlans(n, budget) ==
  IF n = 0 THEN {<<>>}
  ELSE UNION {{<<ls>> \o rest : rest \in LinkPlans(n - 1, budget - Len(ls))}
              : ls \in LinkLists(budget)}

RECURSIVE IndexPlans(_)
IndexPlans(n) ==
  IF n = 0 THEN {<<>>}
  ELSE {rest \o <<x>> : rest \in IndexPlans(n - 1), x \in OptIndexes(n)}

PlanNode(p, index, links) ==
  [index |-> index, kind |-> KindAt(p), displayName |-> NameAt(p),
   childLinks |-> links]

InitPlan ==
  /\ \E n \in 0..MaxNodes :
       \E idx \in IndexPlans(n) :
         \E links \in LinkPlans(n, MaxNodes - 1) :
           plan_nodes = [p \in 1..n |-> PlanNode(p, idx[p], links[p])]
  /\ i = Len(plan_nodes)
  /\ node_dict = <<>> /\ wrapped = <<>>
  /\ ret = <<"pending">> /\ pc = "convert" /\ err = "" /\ out = <<>>
  /\ tree = <<>> /\ properties = <<>> /\ got = <<>> /\ printed = <<>>

NextPlan == ConvertStep \/ ConvertExhausted \/ DisplayPrettyPrint

SpecPlan == InitPlan /\ [][NextPlan]_vars

-----------------------------------------------------------------------------
(* A direct call of Node.PrettyPrint(out) on the root of a Node tree *)

PrettyPrintCall ==
  /\ pc = "call"
  /\ out' = out \o PrettyPrint(tree, <<>>, TRUE, TRUE)
  /\ pc' = "done"
  /\ UNCHANGED <<plan_nodes, i, node_dict, wrapped, ret, err, tree,
                 properties, got, printed>>

(* every shape of a Node tree of exactly n nodes; a forest is a children *)
(* list                                                                  *)
RECURSIVE TreesOfSize(_), Forests(_)
TreesOfSize(n) ==
  {Node(<<>>, cs) : cs \in Forests(n - 1)}
Forests(m) ==
  IF m = 0 THEN {<<>>}
  ELSE UNION {{<<t>> \o f : t \in TreesOfSize(k), f \in Forests(m - k)}
              : k \in 1..m}

(* the record a node wraps: its kind tells its level, its displayName its *)
(* place among its siblings                                               *)
RECURSIVE WithRecords(_, _, _)
WithRecords(shape, level, place) ==
  Node([index |-> <<>>, kind |-> KindAt(level), displayName |-> NameAt(place),
        childLinks |-> <<>>],
       [k \in 1..Len(shape.children) |->
          WithRecords(shape.children[k], level + 1, k)])

InitPrint ==
  /\ \E n \in 1..MaxTreeNodes : \E shape \in TreesOfSize(n) :
       tree = WithRecords(shape, 1, 1)
  /\ pc = "call" /\ out = <<>> /\ err = ""
  /\ plan_nodes = <<>> /\ i = 0 /\ node_dict = <<>> /\ wrapped = <<>>
  /\ ret = <<"pending">>
  /\ properties = <<>> /\ got = <<>> /\ printed = <<>>

NextPrint == PrettyPrintCall

SpecPrint == InitPrint /\ [][NextPrint]_vars

-----------------------------------------------------------------------------
(* _GetAdditionalProperty and DisplayQueryAggregateStats *)

(* hasattr(prop, 'value') *)
HasValue(prop) == "value" \in DOMAIN prop

(* the scan without the `break`: a valueless match does not end it *)
RECURSIVE GetAdditionalPropertyNoBreak(_, _, _)
GetAdditionalPropertyNoBreak(props, property_key, not_found_value) ==
  IF props = <<>> THEN not_found_value
  ELSE IF Head(props).key = property_key /\ HasValue(Head(props))
       THEN Head(props).value
       ELSE GetAdditionalPropertyNoBreak(Tail(props), property_key, not_found_value)

(* for prop in properties: if prop.key == property_key: ... break *)
RECURSIVE GetAdditionalProperty(_, _, _)
GetAdditionalProperty(props, property_key, not_found_value) ==
  IF props = <<>> THEN not_found_value
  ELSE IF Head(props).key = property_key
       THEN IF HasValue(Head(props)) THEN Head(props).value
            ELSE not_found_value
       ELSE GetAdditionalProperty(Tail(props), property_key, not_found_value)

(* the default of the not_found_value parameter *)
Unknown == "Unknown"

(* get_prop = partial(_GetAdditionalProperty, query_stats.additionalProperties) *)
GetProp(props, key) == GetAdditionalProperty(props, key, Unknown)

StatsFormat ==
  "table[box](total_elapsed_time, cpu_time, rows_returned, rows_scanned)"

(* the first label looked up under its own name instead of 'elapsed_time' *)
StatsOwnLabelAsKey(props) ==
  [total_elapsed_time |-> GetProp(props, "total_elapsed_time"),
   cpu_time |-> GetProp(props, "cpu_time"),
   rows_returned |-> GetProp(props, "rows_returned"),
   rows_scanned |-> GetProp(props, "rows_scanned")]

(* the stats dictionary of DisplayQueryAggregateStats *)
Stats(props) ==
  [total_elapsed_time |-> GetProp(props, "elapsed_time"),
   cpu_time |-> GetProp(props, "cpu_time"),
   rows_returned |-> GetProp(props, "rows_returned"),
   rows_scanned |-> GetProp(props, "rows_scanned")]

StatKeys == {"elapsed_time", "cpu_time", "rows_returned", "rows_scanned"}
StatValues == {"5ms", "Unknown"}
Defaults == {"Unknown", "n/a"}

PropertyEntries ==
  [key : StatKeys] \cup [key : StatKeys, value : StatValues]

(* a call _GetAdditionalProperty(properties, key, default) *)
LookupCall ==
  /\ pc = "idle"
  /\ \E key \in StatKeys, nf \in Defaults :
       got' = <<key, nf, GetAdditionalProperty(properties, key, nf)>>
  /\ pc' = "looked"
  /\ UNCHANGED <<plan_nodes, i, node_dict, wrapped, ret, err, out, tree,
                 properties, printed>>

(* DisplayQueryAggregateStats(query_stats, out) *)
DisplayQueryAggregateStats ==
  /\ pc = "idle"
  /\ printed' = <<Stats(properties), StatsFormat>>
  /\ pc' = "done"
  /\ UNCHANGED <<plan_nodes, i, node_dict, wrapped, ret, err, out, tree,
                 properties, got>>

InitStats ==
  /\ \E n \in 0..MaxProps : properties \in [1..n -> PropertyEntries]
  /\ pc = "idle" /\ got = <<>> /\ printed = <<>> /\ err = "" /\ out = <<>>
  /\ plan_nodes = <<>> /\ i = 0 /\ node_dict = <<>> /\ wrapped = <<>>
  /\ ret = <<"pending">> /\ tree = <<>>

NextStats == LookupCall \/ DisplayQueryAggregateStats

SpecStats == InitStats /\ [][NextStats]_vars

-----------------------------------------------------------------------------
(* Properties of DisplayQueryPlan and _ConvertToTree, checked under SpecPlan *)

Range(seq) == {seq[k] : k \in 1..Len(seq)}

Max(S) == CHOOSE x \in S : \A y \in S : y <= x

Returned == ret[1] = "Node"

(* the records wrapped by the nodes of a tree, in depth-first pre-order *)
RECURSIVE RecordsOf(_)
RecordsOf(n) ==
  <<n.properties>> \o Concat([k \in 1..Len(n.children) |-> RecordsOf(n.children[k])])

Occurrences(seq, x) == Cardinality({k \in 1..Len(seq) : seq[k] = x})

Line(prefix, stub, rec) == prefix \o stub \o <<SP>> \o rec.kind \o <<SP>> \o rec.displayName

(* root without index whose links name 0..k-1 in order, then k leaves     *)
(* carrying the indexes 0..k-1                                            *)
C1Shape(plan) ==
  /\ Len(plan) >= 2
  /\ plan[1].index = <<>>
  /\ plan[1].childLinks = [j \in 1..(Len(plan) - 1) |-> [childIndex |-> j - 1]]
  /\ \A p \in 2..Len(plan) : plan[p].index = <<p - 2>> /\ plan[p].childLinks = <<>>

C1Lines(plan) ==
  <<Line(<<>>, <<>>, plan[1])>>
  \o [j \in 1..(Len(plan) - 1) |->
        Line(<<SP, SP, SP, SP>>,
             IF j = Len(plan) - 1 THEN <<"\\", "-">> ELSE <<"+", "-">>,
             plan[j + 1])]

C1ExamplePlan ==
  <<[index |-> <<>>, kind |-> <<"R">>, displayName |-> <<"X">>,
     childLinks |-> <<[childIndex |-> 0], [childIndex |-> 1]>>],
    [index |-> <<0>>, kind |-> <<"A">>, displayName |-> <<"F", "o", "o">>,
     childLinks |-> <<>>],
    [index |-> <<1>>, kind |-> <<"B">>, displayName |-> <<"B", "a", "r">>,
     childLinks |-> <<>>]>>

C1ExampleLines ==
  << <<" ", "R", " ", "X">>,
     <<" ", " ", " ", " ", "+", "-", " ", "A", " ", "F", "o", "o">>,
     <<" ", " ", " ", " ", "\\", "-", " ", "B", " ", "B", "a", "r">> >>

(* C1: once DisplayQueryPlan has ended on a plan [root, child0 .. child(k-1)] *)
(* whose root has no index and links 0..k-1 and whose child i is a leaf with  *)
(* index i, the sink holds exactly the k+1 lines: the root line, then one     *)
(* "    +- " line per child but the last and a "    \- " line for the last;   *)
(* for the plan (R X; A Foo; B Bar) these are " R X", "    +- A Foo",         *)
(* "    \- B Bar".                                                            *)
C1_TwoLevelPlanLines ==
  (pc \in {"done", "raised"} /\ C1Shape(plan_nodes)) =>
     /\ out = C1Lines(plan_nodes)
     /\ plan_nodes = C1ExamplePlan => out = C1ExampleLines

(* exactly one indexless record, placed first; the others carry distinct   *)
(* indexes (0 allowed); every childIndex names a later record; every       *)
(* record but the first is named by exactly one link                       *)
WellFormed(plan) ==
  /\ Len(plan) >= 1
  /\ plan[1].index = <<>>
  /\ \A p \in 2..Len(plan) : plan[p].index # <<>>
  /\ \A p, q \in 2..Len(plan) : plan[p].index = plan[q].index => p = q
  /\ \A p \in 1..Len(plan) : \A k \in 1..Len(plan[p].childLinks) :
       \E q \in (p + 1)..Len(plan) : plan[q].index = <<plan[p].childLinks[k].childIndex>>
  /\ \A q \in 2..Len(plan) :
       Cardinality({pk \in (1..Len(plan)) \X (1..Len(plan)) :
                      /\ pk[2] <= Len(plan[pk[1]].childLinks)
                      /\ <<plan[pk[1]].childLinks[pk[2]].childIndex>> = plan[q].index})
         = 1

(* C2: for a well-formed plan list of N records, _ConvertToTree returns the *)
(* Node wrapping the indexless first record and the tree under it holds     *)
(* exactly N nodes, one per input record, none wrapped twice.               *)
C2_WellFormedPlanGivesWholeTree ==
  (WellFormed(plan_nodes) /\ pc # "convert") =>
     /\ Returned
     /\ ret[2].properties = plan_nodes[1]
     /\ Len(RecordsOf(ret[2])) = Len(plan_nodes)
     /\ \A p \in 1..Len(plan_nodes) :
          Occurrences(RecordsOf(ret[2]), plan_nodes[p]) = 1

(* every node has one child per childLink, in link order, each wrapping a *)
(* record of the list whose index is the link's childIndex                *)
RECURSIVE ChildrenFollowLinks(_, _)
ChildrenFollowLinks(n, plan) ==
  /\ Len(n.children) = Len(n.properties.childLinks)
  /\ \A k \in 1..Len(n.children) :
       /\ n.children[k].properties \in Range(plan)
       /\ n.children[k].properties.index = <<n.properties.childLinks[k].childIndex>>
       /\ ChildrenFollowLinks(n.children[k], plan)

(* C3: in a tree returned by _ConvertToTree every node's children list has *)
(* the length of its record's childLinks and its i-th child wraps a record *)
(* whose index equals childLinks[i].childIndex; no links, no children.     *)
C3_ChildrenInLinkOrder ==
  Returned => ChildrenFollowLinks(ret[2], plan_nodes)

C3_Witness ==
  /\ Returned
  /\ Len(ret[2].children) >= 2
  /\ ret[2].children[1] # ret[2].children[2]
  /\ ret[2].properties.childLinks[1] # ret[2].properties.childLinks[2]

PresentIndexes(plan) == {plan[q].index : q \in 1..Len(plan)} \ {<<>>}

HasDanglingLink(plan) ==
  \E p \in 1..Len(plan) : \E k \in 1..Len(plan[p].childLinks) :
    <<plan[p].childLinks[k].childIndex>> \notin PresentIndexes(plan)

(* the last position whose index is absent or 0: the reverse scan never *)
(* goes past it; position 1 when there is none                          *)
StopPosition(plan) ==
  LET S == {p \in 1..Len(plan) : plan[p].index = <<>> \/ plan[p].index = <<0>>}
  IN IF S = {} THEN 1 ELSE Max(S)

ScanMeetsBadLink(plan) ==
  \E q \in StopPosition(plan)..Len(plan) : \E k \in 1..Len(plan[q].childLinks) :
    <<plan[q].childLinks[k].childIndex>>
       \notin {plan[r].index : r \in (q + 1)..Len(plan)}

FailsBeforeAnyOutput ==
  /\ ret = <<"pending">>
  /\ out = <<>>
  /\ pc # "convert" => (pc = "raised" /\ err = "KeyError")

(* C4 as stated: whenever some record of the list has a childIndex that is *)
(* the index of no record of the list, _ConvertToTree raises the lookup    *)
(* error, returns nothing, and DisplayQueryPlan writes no line.            *)
C4_AnyDanglingLinkFails ==
  HasDanglingLink(plan_nodes) => FailsBeforeAnyOutput

(* C4 amended: whenever a record at or after the last record whose index is *)
(* absent or 0 (any record when there is none) has a childIndex that is the *)
(* index of no record placed after it, _ConvertToTree raises the lookup     *)
(* error, returns nothing, and DisplayQueryPlan writes no line.             *)
C4_ReachedBadLinkFails ==
  ScanMeetsBadLink(plan_nodes) => FailsBeforeAnyOutput

C4_Witness ==
  /\ ScanMeetsBadLink(plan_nodes)
  /\ pc = "raised" /\ err = "KeyError"
  /\ Len(wrapped) >= 2
  /\ node_dict # <<>>

(* C5: on a plan list in which every record carries an index (the empty *)
(* list included) _ConvertToTree signals an error: it neither returns   *)
(* None nor returns a node.                                             *)
C5_NoIndexlessRecordIsAnError ==
  (\A p \in 1..Len(plan_nodes) : plan_nodes[p].index # <<>>) =>
     /\ ret = <<"pending">>
     /\ pc # "convert" => (pc = "raised" /\ err # "AttributeError")

(* no position before an indexless record is ever wrapped, and no record *)
(* placed before it is part of a returned tree                           *)
EarlierRecordsUntouched ==
  \A p \in 1..Len(plan_nodes) : plan_nodes[p].index = <<>> =>
     /\ \A w \in Range(wrapped) : w >= p
     /\ Returned => Range(RecordsOf(ret[2])) \subseteq {plan_nodes[q] : q \in p..Len(plan_nodes)}

ReachedIndexless(p) ==
  /\ p \in Range(wrapped)
  /\ plan_nodes[p].index = <<>>

(* C10 as stated: when the reverse scan reaches a record that has no index *)
(* it returns that record's Node at once, and the records placed before it *)
(* are never wrapped and are no part of the returned tree.                 *)
C10_IndexlessRecordIsReturned ==
  /\ EarlierRecordsUntouched
  /\ \A p \in 1..Len(plan_nodes) : ReachedIndexless(p) =>
       /\ wrapped[Len(wrapped)] = p
       /\ Returned
       /\ ret[2].properties = plan_nodes[p]

(* C10 amended: when the reverse scan reaches a record that has no index,  *)
(* the scan ends at that record: it returns that record's Node at once, or *)
(* raises the lookup error of one of that record's own childLinks; the     *)
(* records placed before it are never wrapped and are no part of the       *)
(* returned tree.                                                          *)
C10_ScanEndsAtIndexlessRecord ==
  /\ EarlierRecordsUntouched
  /\ \A p \in 1..Len(plan_nodes) : ReachedIndexless(p) =>
       /\ wrapped[Len(wrapped)] = p
       /\ pc # "convert"
       /\ \/ Returned /\ ret[2].properties = plan_nodes[p]
          \/ /\ pc = "raised" /\ err = "KeyError" /\ ret = <<"pending">>
             /\ \E k \in 1..Len(plan_nodes[p].childLinks) :
                  <<plan_nodes[p].childLinks[k].childIndex>>
                     \notin {plan_nodes[r].index : r \in (p + 1)..Len(plan_nodes)}

C10_Witness ==
  /\ Returned
  /\ Len(wrapped) >= 2
  /\ wrapped[Len(wrapped)] >= 2
  /\ plan_nodes[wrapped[Len(wrapped)]].index = <<>>
  /\ HasDanglingLink(SubSeq(plan_nodes, 1, wrapped[Len(wrapped)] - 1))

-----------------------------------------------------------------------------
(* Properties of Node.PrettyPrint, checked under SpecPrint.  A node of the *)
(* tree is named by its path: the child positions from the root down.      *)

RECURSIVE Paths(_)
Paths(n) ==
  {<<>>} \cup UNION {{<<k>> \o q : q \in Paths(n.children[k])}
                     : k \in 1..Len(n.children)}

RECURSIVE NodeAt(_, _)
NodeAt(n, p) == IF p = <<>> THEN n ELSE NodeAt(n.children[Head(p)], Tail(p))

IsPrefix(p, q) == Len(p) <= Len(q) /\ SubSeq(q, 1, Len(p)) = p

(* depth-first pre-order: an ancestor first, else the earlier sibling branch *)
Before(p, q) ==
  /\ p # q
  /\ \/ IsPrefix(p, q)
     \/ \E j \in 1..Len(p) :
          /\ j <= Len(q)
          /\ SubSeq(p, 1, j - 1) = SubSeq(q, 1, j - 1)
          /\ p[j] < q[j]

Rank(t, p) == 1 + Cardinality({q \in Paths(t) : Before(q, p)})

LineOf(p) == out[Rank(tree, p)]

Parent(p) == SubSeq(p, 1, Len(p) - 1)

IsLastAt(t, p) == p # <<>> /\ p[Len(p)] = Len(NodeAt(t, Parent(p)).children)

StubAt(t, p) ==
  IF p = <<>> THEN <<>>
  ELSE IF IsLastAt(t, p) THEN <<"\\", "-">> ELSE <<"+", "-">>

TailText(t, p) == Line(<<>>, StubAt(t, p), NodeAt(t, p).properties)

(* the four characters the ancestor at depth j contributes *)
Group(t, p, j) ==
  IF j >= 1 /\ ~IsLastAt(t, SubSeq(p, 1, j)) THEN <<"|", SP, SP, SP>>
  ELSE <<SP, SP, SP, SP>>

Groups(t, p) == Concat([j \in 1..Len(p) |-> Group(t, p, j - 1)])

EndsWith(line, text) ==
  /\ Len(line) >= Len(text)
  /\ SubSeq(line, Len(line) - Len(text) + 1, Len(line)) = text

(* C8: PrettyPrint on the root of a tree writes exactly one line per node, *)
(* in depth-first pre-order with siblings in children order; every line    *)
(* ends with stub, " ", kind, " ", displayName, the stub being empty for   *)
(* the root, "\-" for a last child and "+-" for any other node, and the    *)
(* root's line is nothing but that (" Root X" for a single node).          *)
C8_OneLinePerNodeInPreOrder ==
  pc = "done" =>
     /\ Len(out) = Cardinality(Paths(tree))
     /\ \A p \in Paths(tree) :
          /\ EndsWith(LineOf(p), TailText(tree, p))
          /\ p = <<>> => LineOf(p) = <<SP>> \o tree.properties.kind \o <<SP>>
                                         \o tree.properties.displayName

C8_Witness ==
  /\ pc = "done"
  /\ {<<1, 1>>, <<1, 2>>, <<2>>, <<3>>} \subseteq Paths(tree)
  /\ NodeAt(tree, <<1, 1>>).properties # NodeAt(tree, <<2>>).properties
  /\ Len(out) >= 5

(* every line below the root is its 4*d prefix characters, one group of *)
(* four per ancestor, followed by stub, kind and name                   *)
PrefixIsAncestorGroups ==
  \A p \in Paths(tree) : Len(p) >= 1 =>
     /\ LineOf(p) = Groups(tree, p) \o TailText(tree, p)
     /\ Len(Groups(tree, p)) = 4 * Len(p)

HasBarAt(line, col) == Len(line) >= col /\ line[col] = "|"

LastChild(t, p) == p \o <<Len(NodeAt(t, p).children)>>

HasChildren(t, p) == NodeAt(t, p).children # <<>>

(* C9 as stated: the line of a node at depth d >= 1 starts with d groups  *)
(* of four characters, "|   " for a non-root ancestor that is not a last  *)
(* child and four spaces otherwise, and no line written after the line of *)
(* a node's last child has "|" in the column of that node's children's    *)
(* connectors.                                                            *)
C9_NoBarInColumnAfterLastChild ==
  pc = "done" =>
     /\ PrefixIsAncestorGroups
     /\ \A p \in Paths(tree) : HasChildren(tree, p) =>
          \A q \in Paths(tree) :
             Rank(tree, q) > Rank(tree, LastChild(tree, p)) =>
                ~HasBarAt(LineOf(q), 4 * Len(p) + 5)

(* C9 amended: the same prefix, and no line of a node's own subtree       *)
(* written after the line of its last child has "|" in the column of that *)
(* node's children's connectors.                                          *)
C9_NoBarBelowLastChild ==
  pc = "done" =>
     /\ PrefixIsAncestorGroups
     /\ \A p \in Paths(tree) : HasChildren(tree, p) =>
          \A q \in Paths(tree) :
             (IsPrefix(p, q) /\ Rank(tree, q) > Rank(tree, LastChild(tree, p))) =>
                ~HasBarAt(LineOf(q), 4 * Len(p) + 5)

C9_Witness ==
  /\ pc = "done"
  /\ \E p \in Paths(tree) :
       /\ Len(p) = 3
       /\ LineOf(p)[5] = "|"
       /\ LineOf(p)[9] = SP
       /\ Len(NodeAt(tree, Parent(Parent(p))).children) >= 2

-----------------------------------------------------------------------------
(* Properties of _GetAdditionalProperty and DisplayQueryAggregateStats, *)
(* checked under SpecStats                                              *)

Min(S) == CHOOSE x \in S : \A y \in S : x <= y

Matches(props, key) == {k \in 1..Len(props) : props[k].key = key}

(* decided by the first entry with the key: its value, else the default *)
FirstMatchOr(props, key, default) ==
  IF Matches(props, key) = {} THEN default
  ELSE LET first == props[Min(Matches(props, key))]
       IN IF "value" \in DOMAIN first THEN first.value ELSE default

(* C6: a call _GetAdditionalProperty(properties, key, default) returns the *)
(* value of the first entry whose key equals key when that entry has a     *)
(* value, and default when that entry has none or when no entry matches,   *)
(* whatever later entries hold; the properties list is left as it was.     *)
C6_FirstMatchDecides ==
  [][(pc = "idle" /\ pc' = "looked") =>
       /\ properties' = properties
       /\ got'[3] = FirstMatchOr(properties, got'[1], got'[2])]_vars

C6_Witness ==
  /\ pc = "looked"
  /\ Cardinality(Matches(properties, got[1])) >= 2
  /\ "value" \notin DOMAIN properties[Min(Matches(properties, got[1]))]
  /\ \E k \in Matches(properties, got[1]) : "value" \in DOMAIN properties[k]
  /\ got[3] = got[2]
  /\ got[2] = "n/a"

StatLabels == {"total_elapsed_time", "cpu_time", "rows_returned", "rows_scanned"}

KeyOfLabel(label) == IF label = "total_elapsed_time" THEN "elapsed_time" ELSE label

AbsentOrValueless(props, key) ==
  \/ Matches(props, key) = {}
  \/ "value" \notin DOMAIN props[Min(Matches(props, key))]

OneRowOfFourLookups ==
  /\ err = ""
  /\ DOMAIN printed[1] = StatLabels
  /\ \A label \in StatLabels :
       printed[1][label] = FirstMatchOr(properties, KeyOfLabel(label), "Unknown")

(* C7 as stated: DisplayQueryAggregateStats never fails and hands the     *)
(* renderer one row of the four labels holding the lookups of their keys, *)
(* and a label is "Unknown" exactly when its key is absent from the list  *)
(* or the first entry with that key has no value.                         *)
C7_UnknownExactlyWhenMissing ==
  pc = "done" =>
     /\ OneRowOfFourLookups
     /\ \A label \in StatLabels :
          printed[1][label] = "Unknown"
             <=> AbsentOrValueless(properties, KeyOfLabel(label))

(* C7 amended: the same row, and a label is "Unknown" whenever its key is *)
(* absent or its first entry has no value, and otherwise is that entry's  *)
(* value (which may itself be the text "Unknown").                        *)
C7_UnknownWhenMissing ==
  pc = "done" =>
     /\ OneRowOfFourLookups
     /\ \A label \in StatLabels :
          IF AbsentOrValueless(properties, KeyOfLabel(label))
          THEN printed[1][label] = "Unknown"
          ELSE printed[1][label]
                 = properties[Min(Matches(properties, KeyOfLabel(label)))].value

C7_Witness ==
  /\ pc = "done"
  /\ printed[1].total_elapsed_time = "5ms"
  /\ printed[1].cpu_time = "Unknown"
  /\ Matches(properties, "cpu_time") # {}
  /\ printed[1].rows_scanned = "Unknown"
  /\ Matches(properties, "rows_scanned") = {}

=============================================================================
